---- MODULE Spec2Model ----
(***************************************************************************)
(* Scheduling core of spoi/sports: run_gurobi_optimization                 *)
(* (sports/sports_optimizer.py) and run_scip_optimization                  *)
(* (sports/sports_optimizer_scip.py).                                      *)
(*                                                                         *)
(* Times are minutes from midnight.  The optimisation variables x and dt   *)
(* are continuous in the source; here they range over whole minutes, and   *)
(* dt over 0..MaxFlex.  A solver run is a nondeterministic choice among    *)
(* the points the mixed-integer model admits: any feasible point when the  *)
(* run stops on its time limit or is interrupted, a minimising point when  *)
(* it ends OPTIMAL.                                                        *)
(***************************************************************************)
EXTENDS Integers, Sequences, FiniteSets, TLC

VARIABLES backend, df, prev_soln, kill_callback, kill, pc, idx,
          model_cons, hist, sol, result_df, error, frames, first_call,
          script, clicked, pending, in_flight, opt_result, opt_thread, clicks,
          file, loaded

\* the state of one call of the optimizer and of its caller
call == <<backend, df, prev_soln, kill_callback, kill, pc, idx,
          model_cons, hist, sol, result_df, error, frames, first_call>>

\* the state of one browser session of sports_app.py
app == <<script, clicked, pending, in_flight, opt_result, opt_thread, clicks>>

\* the solution file of the session's user and what was last read from it
disk == <<file, loaded>>

vars == <<call, app, disk>>

None == "None"

\* an area specification written without a day list
NoDays == {}

(* ------------------------------ bounds --------------------------------- *)
\* largest flex amount dt a solver run is let to choose
MaxFlex == 1

\* number of widget events a session receives
MaxClicks == 3

(* ------------------------- program constants --------------------------- *)
D == <<"sun", "man", "tri", "mid", "fim", "fos", "lau">>

Dw == {"sun", "lau"}

days == <<"man", "tri", "mid", "fim", "fos", "lau", "sun">>

M == 24 * 60

ekki_deila_svaedi ==
    [a \in {"A-sal", "2/3 A-sal"} |->
        IF a = "A-sal"
        THEN {"1/3 A-sal-1", "1/3 A-sal-2", "1/3 A-sal-3", "2/3 A-sal"}
        ELSE {"1/3 A-sal-1", "1/3 A-sal-2"}]

ABREV(a) ==
    CASE a \in {"1/3 A-sal-1", "1/3 A-sal-2", "1/3 A-sal-3", "2/3 A-sal", "A-sal"} -> "A"
      [] a = "B-sal" -> "B"
      [] a \in {"Gervi fjaer", "Gervi naer"} -> "G"
      [] OTHER -> a

\* activity names that contain the character '*'
StarNames == {"P*"}

(* --------------------------- small helpers ----------------------------- *)
SeqToSet(s) == {s[i] : i \in DOMAIN s}

RECURSIVE SumOver(_, _)
SumOver(S, f) ==
    IF S = {} THEN 0
    ELSE LET k == CHOOSE k \in S : TRUE
         IN  f[k] + SumOver(S \ {k}, f)

MinOf(S) == CHOOSE v \in S : \A w \in S : v <= w

(* ---------------------------- the inputs ------------------------------- *)
\* One row of the activity table.  Salur is the set of area
\* specifications of 'Salur/svaedi' ("area" or "area (d1/d2)"), win the
\* day columns that are filled in ("HH:MM" or "HH:MM-HH:MM", a time being
\* <<hours, minutes>>), Arekstur the pipe-separated conflict names and
\* fyrir the 'fyrir/undan' reference.
ActivityRow(name, salur, win, lengd, helgar, arekstur, fyrir) ==
    [Aefing |-> name, Salur |-> salur, win |-> win, Lengd |-> lengd,
     LengdHelgar |-> helgar, Aefingarhopar |-> 1, Priority |-> 1,
     Arekstur |-> arekstur, fyrir |-> fyrir]

AreaSpec(a, ds) == [area |-> a, days |-> ds]

T(m) == <<0, m>>

\* two activities that compete for A-sal and its 2/3 partition on one day
TableOverlap ==
    << ActivityRow("P", {AreaSpec("A-sal", NoDays)},
                   ("man" :> <<T(0), T(1)>>), <<2>>, <<>>, <<>>, None),
       ActivityRow("Q", {AreaSpec("A-sal", NoDays), AreaSpec("2/3 A-sal", NoDays)},
                   ("man" :> <<T(1), T(2)>>), <<1>>, <<>>, <<>>, None) >>

\* one activity with two weekday sessions and two possible days
TableTwice ==
    << ActivityRow("P", {AreaSpec("B-sal", NoDays)},
                   ("man" :> <<T(0), T(1)>>) @@ ("tri" :> <<T(0), T(1)>>),
                   <<1, 1>>, <<>>, <<>>, None) >>

\* P declares conflicts with Q and with R
TableConflict ==
    << ActivityRow("P", {AreaSpec("B-sal", NoDays)},
                   ("man" :> <<T(0), T(1)>>), <<1>>, <<>>, <<"Q", "R">>, None),
       ActivityRow("Q", {AreaSpec("A-sal", NoDays)},
                   ("man" :> <<T(0), T(1)>>), <<1>>, <<>>, <<>>, None),
       ActivityRow("R", {AreaSpec("1/3 A-sal-3", NoDays)},
                   ("man" :> <<T(0), T(1)>>), <<1>>, <<>>, <<>>, None) >>

\* P must come before Q; Q has two areas to choose from
TableBefore ==
    << ActivityRow("P", {AreaSpec("B-sal", NoDays)},
                   ("man" :> <<T(0)>>), <<2>>, <<>>, <<>>, "Q"),
       ActivityRow("Q", {AreaSpec("A-sal", NoDays), AreaSpec("1/3 A-sal-3", NoDays)},
                   ("man" :> <<T(0), T(1)>>), <<1>>, <<>>, <<>>, None) >>

\* one activity that can be held on either of two days
TableMove ==
    << ActivityRow("P", {AreaSpec("A-sal", NoDays)},
                   ("man" :> <<T(1)>>) @@ ("tri" :> <<T(1)>>),
                   <<1>>, <<>>, <<>>, None) >>

\* one activity, two areas with different abbreviations
TableAreas ==
    << ActivityRow("P", {AreaSpec("A-sal", NoDays), AreaSpec("B-sal", NoDays)},
                   ("man" :> <<T(1)>>), <<1>>, <<>>, <<>>, None) >>

\* one activity, one of whose two areas is written with a day list
TableDays ==
    << ActivityRow("P", {AreaSpec("A-sal", {"tri"}), AreaSpec("B-sal", NoDays)},
                   ("man" :> <<T(0)>>) @@ ("tri" :> <<T(0)>>),
                   <<1>>, <<>>, <<>>, None) >>

\* one weekday session and one weekend session
TableWeekend ==
    << ActivityRow("P", {AreaSpec("B-sal", NoDays)},
                   ("man" :> <<T(0)>>) @@ ("lau" :> <<T(0)>>),
                   <<1>>, <<1>>, <<>>, None) >>

\* an activity whose name contains '*', with one weekday session
TableStar ==
    << ActivityRow("P*", {AreaSpec("B-sal", NoDays)},
                   ("man" :> <<T(0)>>) @@ ("lau" :> <<T(0)>>),
                   <<1>>, <<>>, <<>>, None) >>

\* the only area is allowed on a day for which there is no window
TableNoOption ==
    << ActivityRow("P", {AreaSpec("A-sal", {"tri"})},
                   ("man" :> <<T(0)>>), <<1>>, <<>>, <<>>, None) >>

\* a window written "00:01-00:00"
TableInverted ==
    << ActivityRow("P", {AreaSpec("B-sal", NoDays)},
                   ("man" :> <<T(1), T(0)>>), <<1>>, <<>>, <<>>, None) >>

\* one activity, one session, one area, one day with the window 00:01-00:02
TableSingle ==
    << ActivityRow("P", {AreaSpec("B-sal", NoDays)},
                   ("man" :> <<T(1), T(2)>>), <<1>>, <<>>, <<>>, None) >>

\* one weekday session and one weekend session, windows on two adjacent days
TableAdjacent ==
    << ActivityRow("P", {AreaSpec("B-sal", NoDays)},
                   ("sun" :> <<T(0)>>) @@ ("man" :> <<T(0)>>),
                   <<1>>, <<1>>, <<>>, None) >>

\* two activities with the same single start time, one in 2/3 A-sal and one
\* in 1/3 A-sal-3: both are listed under A-sal, neither under the other
TableSiblings ==
    << ActivityRow("P", {AreaSpec("2/3 A-sal", NoDays)},
                   ("man" :> <<T(0)>>), <<1>>, <<>>, <<>>, None),
       ActivityRow("Q", {AreaSpec("1/3 A-sal-3", NoDays)},
                   ("man" :> <<T(0)>>), <<1>>, <<>>, <<>>, None) >>

\* two activities that can both be held in B-sal on man and on tri, at 00:00
\* only
TableTwoDays ==
    << ActivityRow("P", {AreaSpec("B-sal", NoDays)},
                   ("man" :> <<T(0)>>) @@ ("tri" :> <<T(0)>>),
                   <<1>>, <<>>, <<>>, None),
       ActivityRow("Q", {AreaSpec("B-sal", NoDays)},
                   ("man" :> <<T(0)>>) @@ ("tri" :> <<T(0)>>),
                   <<1>>, <<>>, <<>>, None) >>

\* two activities of 24 hours and one minute that can both be held in B-sal
\* on man and on tri, at 00:02 only: sessions that end after 24:00
TableLate ==
    << ActivityRow("P", {AreaSpec("B-sal", NoDays)},
                   ("man" :> <<T(2)>>) @@ ("tri" :> <<T(2)>>),
                   <<1441>>, <<>>, <<>>, None),
       ActivityRow("Q", {AreaSpec("B-sal", NoDays)},
                   ("man" :> <<T(2)>>) @@ ("tri" :> <<T(2)>>),
                   <<1441>>, <<>>, <<>>, None) >>

Tables == {TableOverlap, TableTwice, TableConflict, TableBefore, TableMove, TableAreas,
           TableDays, TableWeekend, TableStar, TableNoOption, TableInverted, TableSingle,
           TableAdjacent, TableSiblings, TableTwoDays, TableLate}

\* One row of a previous solution.
PrevRow(e, d, a, t, modified, violated) ==
    [Aefing |-> e, Dagur |-> d, Salur |-> a, Byrjun |-> t,
     Modified |-> modified, ViolatedWindow |-> violated]

\* prev_soln is None, or a table of rows
NoPrev == [is_none |-> TRUE, rows |-> <<>>]

Prev(rows) == [is_none |-> FALSE, rows |-> rows]

PrevTables(t) ==
    IF t \in {TableMove, TableAreas}
    THEN { Prev(<<PrevRow("P", "man", "A", T(1), TRUE, FALSE)>>),
           Prev(<<PrevRow("P", "man", "A", T(1), FALSE, FALSE)>>),
           Prev(<<PrevRow("P", "man", "A", T(0), TRUE, TRUE)>>),
           Prev(<<PrevRow("P", "man", "A", T(1), TRUE, FALSE),
                  PrevRow("P", "man", "A", T(0), TRUE, TRUE)>>) }
    ELSE IF t = TableOverlap
    THEN { Prev(<<PrevRow("P", "man", "A", T(0), FALSE, FALSE),
                  PrevRow("Q", "man", "A", T(2), TRUE, FALSE)>>) }
    ELSE {}

(* ------------------------- data preparation ---------------------------- *)
\* The data frames the call touches: the two the caller passed and the one
\* the local name df is bound to.  A frame is "as_passed" until the column
\* assignments of lines 47, 57 and 58 have replaced its string columns by
\* sets and lists ("split").
frames0 == [caller_df |-> "as_passed", caller_prev |-> "as_passed", local_df |-> "unbound"]

\* copy without the call: the local name stays bound to the caller's frame
copy_alias(frame) == frame

\* df = df.copy(): the frame the local name is bound to afterwards
copy(frame) == "local_df"

split_columns(fr, frame) == [fr EXCEPT ![frame] = "split"]

\* section 1 of the data preparation
clean_and_split(fr) ==
    split_columns([fr EXCEPT ![copy("caller_df")] = fr["caller_df"]], copy("caller_df"))

Rows(t) == SeqToSet(t)

RowOf(t, e) == CHOOSE r \in Rows(t) : r.Aefing = e

E(t) == [i \in DOMAIN t |-> t[i].Aefing]

extract_days(info) == <<info.area, info.days>>

svaedi(t) == {extract_days(sp)[1] : sp \in UNION {r.Salur : r \in Rows(t)}}

\* (activity, area) -> the allowed days written in parentheses; only the
\* specifications that carry a day list have an entry (dropna on 'Dagar')
svaedi_dagar(t) ==
    LET keys == UNION {{<<r.Aefing, sp.area>> : sp \in {s \in r.Salur : s.days # NoDays}} :
                       r \in Rows(t)}
    IN  [k \in keys |->
            (CHOOSE sp \in RowOf(t, k[1]).Salur : sp.area = k[2] /\ sp.days # NoDays).days]

time_to_minutes(time_str) == time_str[1] * 60 + time_str[2]

extract_time_ranges(time_range) ==
    IF Len(time_range) = 2
    THEN <<time_to_minutes(time_range[1]), time_to_minutes(time_range[2])>>
    ELSE <<time_to_minutes(time_range[1]), time_to_minutes(time_range[1])>>

class_schedule(t, e) ==
    [d \in DOMAIN RowOf(t, e).win |-> extract_time_ranges(RowOf(t, e).win[d])]

\* only rows with a non-empty conflict list get an entry
conflict_dict(t) ==
    [e \in {r.Aefing : r \in {q \in Rows(t) : Len(q.Arekstur) > 0}} |->
        RowOf(t, e).Arekstur]

\* rows with a 'fyrir/undan' reference; a row whose sorted pair repeats an
\* earlier row's pair is dropped (drop_duplicates keeps the first)
undan_eftir(t) ==
    LET has(i)  == t[i].fyrir # None
        pair(i) == {t[i].Aefing, t[i].fyrir}
        kept    == {i \in DOMAIN t : has(i) /\
                      ~\E j \in DOMAIN t : j < i /\ has(j) /\ pair(j) = pair(i)}
    IN  [e \in {t[i].Aefing : i \in kept} |-> RowOf(t, e).fyrir]

number_exercises(t, e) ==
    <<RowOf(t, e).Lengd, RowOf(t, e).LengdHelgar,
      RowOf(t, e).Aefingarhopar>>

e_a(t, e) == {extract_days(sp)[1] : sp \in RowOf(t, e).Salur}

\* A is the set the loops iterate over.  The Gurobi variant collects the
\* extracted area names; the SCIP variant collects the raw specification
\* strings, of which only those written without a day list equal an area
\* name, so only those can pass "a in areas_by_ex[e]".
A(bk, t) ==
    IF bk = "gurobi" THEN svaedi(t)
    ELSE {sp.area : sp \in {s \in UNION {r.Salur : r \in Rows(t)} : s.days = NoDays}}

\* a session instance "<e> - <i>" or "<e> * <i>" is <<e, "-", i>> or <<e, "*", i>>
EXsubset(t, e) ==
    [i \in 1..Len(number_exercises(t, e)[1]) |-> <<e, "-", i>>] \o
    [i \in 1..Len(number_exercises(t, e)[2]) |-> <<e, "*", i>>]

DXsubset(t, e) ==
    [i \in 1..Len(number_exercises(t, e)[1]) |->
        number_exercises(t, e)[1][i] * number_exercises(t, e)[3]] \o
    [i \in 1..Len(number_exercises(t, e)[2]) |->
        number_exercises(t, e)[2][i] * number_exercises(t, e)[3]]

EX(t) == UNION {SeqToSet(EXsubset(t, e)) : e \in SeqToSet(E(t))}

DX(t, ex) ==
    LET i == CHOOSE i \in DOMAIN EXsubset(t, ex[1]) : EXsubset(t, ex[1])[i] = ex
    IN  DXsubset(t, ex[1])[i]

\* the test "'*' in ex" on the instance's name
star(ex) == ex[2] = "*" \/ ex[1] \in StarNames

\* section 9 of the data preparation: the legal triples (ex, d, a)
EDA_build(bk, t) ==
    {k \in EX(t) \X SeqToSet(D) \X A(bk, t) :
        LET e == k[1][1]  d == k[2]  a == k[3]
        IN  /\ d \in DOMAIN class_schedule(t, e)
            /\ a \in e_a(t, e)
            /\ (d \in Dw /\ star(k[1])) \/ (d \notin Dw /\ ~star(k[1]))
            /\ bk = "scip" =>
                  (<<e, a>> \notin DOMAIN svaedi_dagar(t) \/ d \in svaedi_dagar(t)[<<e, a>>])}

\* the legal triples of every input, computed once
EDA_all == [bk \in {"gurobi", "scip"} |-> [t \in Tables |-> EDA_build(bk, t)]]

EDA(bk, t) == EDA_all[bk][t]

UB(t, k) == class_schedule(t, k[1][1])[k[2]][2]

LB(t, k) == class_schedule(t, k[1][1])[k[2]][1]

\* CX[ex]: the instances of the FIRST listed conflict that names a known
\* activity (tmp[0]); no entry when the list names none
CX_build(bk, t) ==
    LET known(e) == {i \in DOMAIN conflict_dict(t)[e] :
                        conflict_dict(t)[e][i] \in SeqToSet(E(t))}
        has(ex)  == /\ ex[1] \in DOMAIN conflict_dict(t)
                    /\ known(ex[1]) # {}
                    /\ IF bk = "gurobi"
                       THEN DOMAIN class_schedule(t, ex[1]) # {}
                       ELSE \E k \in EDA(bk, t) : k[1] = ex
    IN  [ex \in {x \in EX(t) : has(x)} |->
            SeqToSet(EXsubset(t, conflict_dict(t)[ex[1]][MinOf(known(ex[1]))]))]

CX_all == [bk \in {"gurobi", "scip"} |-> [t \in Tables |-> CX_build(bk, t)]]

CX(bk, t) == CX_all[bk][t]

ExE(t) == {p \in EX(t) \X EX(t) : p[1] # p[2]}


(* --------------------- the mixed-integer model ------------------------- *)
\* A point of the model gives every legal triple k = <<ex, d, a>> the values
\* of z[k], x[k], dt[k] and zt[k].  The ordering booleans y, the trackers q
\* and the deviations delta_prev occur in no output; a point is feasible
\* when some value of them satisfies the constraints.

\* upper bound of dt: none in the Gurobi variant, 60 in the SCIP variant
dt_ub(bk) == IF bk = "gurobi" THEN MaxFlex ELSE IF MaxFlex < 60 THEN MaxFlex ELSE 60

\* variable bounds and section 2 (time and activation) for one triple
WindowCoupling(t, k, c) ==
    /\ c.z * LB(t, k) - c.dt <= c.x
    /\ c.x <= UB(t, k) * c.z + c.dt
    /\ c.dt <= M * c.zt

\* x without its upper bound ub=UB: only the rows of section 2 bound it
Cells_no_ub(bk, t, k) ==
    {c \in [z : 0..1, x : 0..(UB(t, k) + dt_ub(bk)), dt : 0..dt_ub(bk), zt : 0..1] :
        WindowCoupling(t, k, c)}

Cells(bk, t, k) ==
    {c \in [z : 0..1, x : 0..UB(t, k), dt : 0..dt_ub(bk), zt : 0..1] :
        WindowCoupling(t, k, c)}

RECURSIVE Points(_, _, _)
Points(bk, t, K) ==
    IF K = {} THEN {<<>>}
    ELSE LET k == CHOOSE k \in K : TRUE
         IN  {(k :> c) @@ f : c \in Cells(bk, t, k), f \in Points(bk, t, K \ {k})}

\* a sum of one variable over the legal triples that satisfy a condition
Sz(s, K)  == SumOver(K, [k \in K |-> s[k].z])

Sx(s, K)  == SumOver(K, [k \in K |-> s[k].x])

\* ExactlyOnce as its comment words it: "at most once"
ExactlyOnce_at_most(bk, t, s) ==
    \A ex \in EX(t) : Sz(s, {k \in EDA(bk, t) : k[1] = ex}) <= 1

\* "each exercise instance can be performed at most once": == 1
ExactlyOnce(bk, t, s) ==
    \A ex \in EX(t) : Sz(s, {k \in EDA(bk, t) : k[1] = ex}) = 1

\* OncePerDay summed per instance instead of per activity
OncePerDay_per_instance(bk, t, s) ==
    \A d \in SeqToSet(D) : \A ex \in EX(t) :
        Sz(s, {k \in EDA(bk, t) : k[1] = ex /\ k[2] = d}) <= 1

\* "each exercise (group) at most once per day"
OncePerDay(bk, t, s) ==
    \A d \in SeqToSet(D) : \A e \in SeqToSet(E(t)) :
        Sz(s, {k \in EDA(bk, t) : k[1][1] = e /\ k[2] = d}) <= 1

\* the two rows, each switched off only by the instance on its left-hand side
Disjunction_own(t, s, k1, k2, y) ==
    /\ s[k1].x + DX(t, k1[1]) <= s[k2].x + M * (1 - s[k1].z) + M * y
    /\ s[k2].x + DX(t, k2[1]) <= s[k1].x + M * (1 - s[k2].z) + M * (1 - y)

\* the two big-M rows of one ordered pair at the triples k1 (of e1), k2 (of e2)
Disjunction(t, s, k1, k2, y) ==
    /\ s[k1].x + DX(t, k1[1]) <= s[k2].x + M * (1 - s[k1].z) + M * (1 - s[k2].z) + M * y
    /\ s[k2].x + DX(t, k2[1]) <= s[k1].x + M * (1 - s[k1].z) + M * (1 - s[k2].z) + M * (1 - y)

\* SameArea that pairs the triples of two different days
SameArea_other_day(bk, t, s, p, y) ==
    \A k1, k2 \in EDA(bk, t) :
        (k1[1] = p[1] /\ k2[1] = p[2] /\ k1[2] # k2[2] /\ k1[3] = k2[3])
            => Disjunction(t, s, k1, k2, y)

\* section 3: no overlap at the same location
SameArea(bk, t, s, p, y) ==
    \A k1, k2 \in EDA(bk, t) :
        (k1[1] = p[1] /\ k2[1] = p[2] /\ k1[2] = k2[2] /\ k1[3] = k2[3])
            => Disjunction(t, s, k1, k2, y)

\* SharedAreas that looks the second area up under itself
SharedAreas_own_key(bk, t, s, p, y) ==
    \A k1, k2 \in EDA(bk, t) :
        (/\ k1[1] = p[1] /\ k2[1] = p[2] /\ k1[2] = k2[2]
         /\ k2[3] \in DOMAIN ekki_deila_svaedi
         /\ k2[3] \in ekki_deila_svaedi[k2[3]])
            => Disjunction(t, s, k1, k2, y)

\* SharedAreas that takes every two parts of one hall for exclusive
SharedAreas_same_hall(bk, t, s, p, y) ==
    \A k1, k2 \in EDA(bk, t) :
        (/\ k1[1] = p[1] /\ k2[1] = p[2] /\ k1[2] = k2[2]
         /\ k1[3] # k2[3]
         /\ ABREV(k1[3]) = ABREV(k2[3]))
            => Disjunction(t, s, k1, k2, y)

\* section 4: no overlap across areas that cannot be shared
SharedAreas(bk, t, s, p, y) ==
    \A k1, k2 \in EDA(bk, t) :
        (/\ k1[1] = p[1] /\ k2[1] = p[2] /\ k1[2] = k2[2]
         /\ k1[3] \in DOMAIN ekki_deila_svaedi
         /\ k2[3] \in ekki_deila_svaedi[k1[3]])
            => Disjunction(t, s, k1, k2, y)

\* section 5: declared conflicts, on the per-day sums over areas (Gurobi only)
Conflict(bk, t, s, p, y) ==
    (bk = "gurobi" /\ p[1] \in DOMAIN CX(bk, t) /\ p[2] \in CX(bk, t)[p[1]]) =>
    \A d \in SeqToSet(D) :
        LET K1 == {k \in EDA(bk, t) : k[1] = p[1] /\ k[2] = d}
            K2 == {k \in EDA(bk, t) : k[1] = p[2] /\ k[2] = d}
        IN  /\ Sx(s, K1) + DX(t, p[1])
                  <= Sx(s, K2) + M * (1 - Sz(s, K1)) + M * (1 - Sz(s, K2)) + M * y
            /\ Sx(s, K2) + DX(t, p[2])
                  <= Sx(s, K1) + M * (1 - Sz(s, K1)) + M * (1 - Sz(s, K2)) + M * (1 - y)

\* every ordered pair has one ordering boolean y[e1, e2] for all its rows
Ordering(bk, t, s) ==
    \A p \in ExE(t) : \E y \in 0..1 :
        /\ SameArea(bk, t, s, p, y)
        /\ SharedAreas(bk, t, s, p, y)
        /\ Conflict(bk, t, s, p, y)

\* LegalDays with the day test inverted ("d in" for "d not in")
LegalDays_inverted(bk, t, s) ==
    bk = "gurobi" =>
    \A ea \in DOMAIN svaedi_dagar(t) :
        Sz(s, {k \in EDA(bk, t) : /\ k[1][1] = ea[1] /\ k[3] = ea[2]
                                   /\ k[2] \in svaedi_dagar(t)[ea]}) = 0

\* section 6: legal days for an area (Gurobi; the SCIP variant filters EDA)
LegalDays(bk, t, s) ==
    bk = "gurobi" =>
    \A ea \in DOMAIN svaedi_dagar(t) :
        Sz(s, {k \in EDA(bk, t) : /\ k[1][1] = ea[1] /\ k[3] = ea[2]
                                   /\ k[2] \notin svaedi_dagar(t)[ea]}) = 0

\* section 7: before/after (Gurobi only): both rows for every day
BeforeAfter(bk, t, s) ==
    bk = "gurobi" =>
    \A d \in SeqToSet(D) : \A e1 \in DOMAIN undan_eftir(t) :
        LET e2 == undan_eftir(t)[e1]
            K1 == {k \in EDA(bk, t) : k[1][1] = e1 /\ k[2] = d}
            K2 == {k \in EDA(bk, t) : k[1][1] = e2 /\ k[2] = d}
            end1 == SumOver(K1, [k \in K1 |-> s[k].x + DX(t, k[1]) * s[k].z])
        IN  /\ end1 <= Sx(s, K2) + M * (1 - Sz(s, K1)) + M * (1 - Sz(s, K2))
            /\ end1 >= Sx(s, K2) - M * (1 - Sz(s, K1)) - M * (1 - Sz(s, K2))

HardConstraints(bk, t, s) ==
    /\ ExactlyOnce(bk, t, s)
    /\ OncePerDay(bk, t, s)
    /\ Ordering(bk, t, s)
    /\ LegalDays(bk, t, s)
    /\ BeforeAfter(bk, t, s)

\* the points of the model as built, before any phase adds constraints
BuiltModel ==
    [bk \in {"gurobi", "scip"} |->
        [t \in Tables |-> {s \in Points(bk, t, EDA(bk, t)) : HardConstraints(bk, t, s)}]]

\* the rows of sections 3, 4 and 5 that one ordered pair has for one day
rows_of_day(bk, t, s, p, d, y) ==
    /\ \A k1, k2 \in EDA(bk, t) :
          (/\ k1[1] = p[1] /\ k2[1] = p[2] /\ k1[2] = d /\ k2[2] = d
           /\ \/ k1[3] = k2[3]
              \/ k1[3] \in DOMAIN ekki_deila_svaedi /\ k2[3] \in ekki_deila_svaedi[k1[3]])
              => Disjunction(t, s, k1, k2, y)
    /\ (bk = "gurobi" /\ p[1] \in DOMAIN CX(bk, t) /\ p[2] \in CX(bk, t)[p[1]]) =>
          LET K1 == {k \in EDA(bk, t) : k[1] = p[1] /\ k[2] = d}
              K2 == {k \in EDA(bk, t) : k[1] = p[2] /\ k[2] = d}
          IN  /\ Sx(s, K1) + DX(t, p[1])
                    <= Sx(s, K2) + M * (1 - Sz(s, K1)) + M * (1 - Sz(s, K2)) + M * y
              /\ Sx(s, K2) + DX(t, p[2])
                    <= Sx(s, K1) + M * (1 - Sz(s, K1)) + M * (1 - Sz(s, K2)) + M * (1 - y)

\* the model with an ordering boolean y[e1, e2, d] for every day in place
\* of y[e1, e2]
ordering_per_day(bk, t, s) ==
    /\ ExactlyOnce(bk, t, s)
    /\ OncePerDay(bk, t, s)
    /\ \A p \in ExE(t) : \A d \in SeqToSet(D) : \E y \in 0..1 : rows_of_day(bk, t, s, p, d, y)
    /\ LegalDays(bk, t, s)
    /\ BeforeAfter(bk, t, s)

PerDayModel ==
    [bk \in {"gurobi", "scip"} |->
        [t \in Tables |-> {s \in Points(bk, t, EDA(bk, t)) : ordering_per_day(bk, t, s)}]]

\* the schedule of a point: its activations and the starts of its placements
schedule(s) == [k \in DOMAIN s |-> IF s[k].z = 1 THEN <<1, s[k].x>> ELSE <<0, 0>>]

\* the two models have the same schedules
same_schedules ==
    [bk \in {"gurobi", "scip"} |->
        [t \in Tables |-> {schedule(s) : s \in PerDayModel[bk][t]}
                             = {schedule(s) : s \in BuiltModel[bk][t]}]]

\* every session of the table ends by 24:00 wherever its window lets it start
within_day(bk, t) == \A k \in EDA(bk, t) : UB(t, k) + DX(t, k[1]) <= M

\* a1 and a2 are the same area, or one is listed under the other
declared(a1, a2) ==
    \/ a1 = a2
    \/ a1 \in DOMAIN ekki_deila_svaedi /\ a2 \in ekki_deila_svaedi[a1]
    \/ a2 \in DOMAIN ekki_deila_svaedi /\ a1 \in ekki_deila_svaedi[a2]

\* The points that place every instance once, an activity at most once a
\* day, on legal days and in the declared precedence, and in which two
\* placements of the same day are apart in time, in the order of the pair,
\* when they are in conflict or in the same or two declared areas; other
\* placements may overlap.
apart_as_declared(bk, t, s) ==
    /\ ExactlyOnce(bk, t, s)
    /\ OncePerDay(bk, t, s)
    /\ LegalDays(bk, t, s)
    /\ BeforeAfter(bk, t, s)
    /\ \A p \in ExE(t) : \E y \in 0..1 :
          /\ Conflict(bk, t, s, p, y)
          /\ \A k1, k2 \in EDA(bk, t) :
                (/\ k1[1] = p[1] /\ k2[1] = p[2] /\ k1[2] = k2[2]
                 /\ s[k1].z = 1 /\ s[k2].z = 1
                 /\ \/ k1[3] = k2[3]
                    \/ k1[3] \in DOMAIN ekki_deila_svaedi /\ k2[3] \in ekki_deila_svaedi[k1[3]])
                    => IF y = 0 THEN s[k1].x + DX(t, k1[1]) <= s[k2].x
                       ELSE s[k2].x + DX(t, k2[1]) <= s[k1].x

DeclaredModel ==
    [bk \in {"gurobi", "scip"} |->
        [t \in Tables |-> {s \in Points(bk, t, EDA(bk, t)) : apart_as_declared(bk, t, s)}]]

\* the built model accepts every point of DeclaredModel
accepts_declared ==
    [bk \in {"gurobi", "scip"} |->
        [t \in Tables |-> DeclaredModel[bk][t] \subseteq BuiltModel[bk][t]]]


(* ----------------------- warm-start reconciler ------------------------- *)
\* matched without the test "if not violated"
matched_all(p) == DOMAIN p.rows

\* the rows that are matched: those whose ViolatedWindow flag is not set
matched(p) == {i \in DOMAIN p.rows : ~p.rows[i].ViolatedWindow}

\* the keys (ex, d) of a row: one per instance of the row's activity
row_keys(t, r) ==
    IF r.Aefing \in SeqToSet(E(t))
    THEN {<<ex, r.Dagur>> : ex \in SeqToSet(EXsubset(t, r.Aefing))}
    ELSE {}

modifiedEDA(t, p) ==
    UNION {row_keys(t, p.rows[i]) : i \in {j \in matched(p) : p.rows[j].Modified}}

\* the rows that record a prior start under key: the Gurobi variant asks
\* "key in EDA" of the pair (ex, d) against the list of triples, the SCIP
\* variant records inside "if modified"
recording(bk, t, p, key) ==
    {i \in matched(p) :
        /\ key \in row_keys(t, p.rows[i])
        /\ IF bk = "gurobi" THEN key \in EDA(bk, t) ELSE p.rows[i].Modified}

prev_keys(bk, t, p) ==
    {key \in UNION {row_keys(t, p.rows[i]) : i \in matched(p)} :
        recording(bk, t, p, key) # {}}

\* a later row overwrites an earlier one under the same key
last_row(bk, t, p, key) ==
    p.rows[CHOOSE i \in recording(bk, t, p, key) :
               \A j \in recording(bk, t, p, key) : j <= i]

prev_assignment(bk, t, p) ==
    [key \in prev_keys(bk, t, p) |-> time_to_minutes(last_row(bk, t, p, key).Byrjun)]

mod_penalty(bk, t, p) ==
    [key \in prev_keys(bk, t, p) |->
        LET r == last_row(bk, t, p, key)
        IN  IF r.ViolatedWindow THEN 0 ELSE IF r.Modified THEN 100 ELSE 1]

(* ---------------------------- objectives ------------------------------- *)
priority_order(t, e) == RowOf(t, e).Priority

timeflex(bk, t, s) ==
    SumOver(EDA(bk, t),
            [k \in EDA(bk, t) |-> priority_order(t, k[1][1]) * (s[k].dt + 100 * s[k].zt)])

Abs(n) == IF n < 0 THEN -n ELSE n

\* delta_prev[ex, d] >= |sum_a x[ex, d, a] - prev_assignment[ex, d]|, at
\* its least value
delta_prev(bk, t, p, s, key) ==
    Abs(Sx(s, {k \in EDA(bk, t) : k[1] = key[1] /\ k[2] = key[2]})
        - prev_assignment(bk, t, p)[key])

stayclose(bk, t, p, s) ==
    SumOver(prev_keys(bk, t, p),
            [key \in prev_keys(bk, t, p) |->
                mod_penalty(bk, t, p)[key] * delta_prev(bk, t, p, s, key)])

\* section 8: q[e, i] >= (sum of z over the two adjacent days) - 1, q >= 0,
\* at its least value; i = 7 is the pair (D[7], D[1])
q(bk, t, s, e, i) ==
    LET d1 == D[i]
        d2 == D[(i % 7) + 1]
        K  == {k \in EDA(bk, t) : /\ k[1][1] = e /\ k[2] = d1
                                   /\ <<k[1], d2, k[3]>> \in EDA(bk, t)}
        v  == SumOver(K, [k \in K |-> s[k].z + s[<<k[1], d2, k[3]>>].z]) - 1
    IN  IF v < 0 THEN 0 ELSE v

\* bias[a], in hundredths
bias(a) == IF a = "1/3 A-sal-1" THEN 102 ELSE IF a = "1/3 A-sal-2" THEN 101 ELSE 100

\* the "default" objective 100 * sum q + (1 / len(EX)) * sum bias[a] * x,
\* multiplied by 100 * len(EX) to stay in the integers
default(bk, t, s) ==
    LET n  == Cardinality(EX(t))
        EI == SeqToSet(E(t)) \X (1..7)
    IN  100 * SumOver(EI, [ei \in EI |-> q(bk, t, s, ei[1], ei[2])]) * 100 * n
        + SumOver(EDA(bk, t), [k \in EDA(bk, t) |-> bias(k[3]) * s[k].x])

obj_expr(name, bk, t, p, s) ==
    CASE name = "timeflex"  -> timeflex(bk, t, s)
      [] name = "stayclose" -> stayclose(bk, t, p, s)
      [] name = "default"   -> default(bk, t, s)

objective_order(bk, p) ==
    IF bk = "scip" THEN <<"timeflex">>
    ELSE IF ~p.is_none THEN <<"stayclose", "timeflex">>
    ELSE <<"timeflex", "default">>

(* ------------------- constraints added by the phases ------------------- *)
\* "no_modified_zt", added by stayclose_constraint_fn
no_modified_zt(bk, t, p, s) ==
    LET K == {k \in EDA(bk, t) : <<k[1], k[2]>> \in modifiedEDA(t, p)}
    IN  SumOver(K, [k \in K |-> s[k].zt]) = 0

Fix(name, best) == [name |-> name, best |-> best]

Lock == [name |-> "no_modified_zt", best |-> 0]

\* obj_expr <= best_val + 1e-6, in millionths
holds(c, bk, t, p, s) ==
    IF c = Lock THEN no_modified_zt(bk, t, p, s)
    ELSE 1000000 * obj_expr(c.name, bk, t, p, s) <= 1000000 * c.best + 1

phase_constraints(name) == IF name = "stayclose" THEN {Lock} ELSE {}

Feasible(bk, t, p, cons) ==
    {s \in BuiltModel[bk][t] : \A c \in cons : holds(c, bk, t, p, s)}


(* ---------------------------- a solver run ----------------------------- *)
\* What model.optimize() can leave behind: a status and the values X of an
\* incumbent, if one was found ({} when there is none).
Outcome(status, X) == [status |-> status, X |-> X]

\* optimize that reports OPTIMAL for whichever feasible point it found first
optimize_first_found(bk, t, p, cons, name, interrupted) ==
    LET F == Feasible(bk, t, p, cons)
    IN  IF interrupted
        THEN {Outcome("INTERRUPTED", {s}) : s \in F} \cup {Outcome("INTERRUPTED", {})}
        ELSE IF F = {}
        THEN {Outcome("INFEASIBLE", {})}
        ELSE {Outcome("OPTIMAL", {s}) : s \in F}
             \cup {Outcome("TIME_LIMIT", {s}) : s \in F}
             \cup {Outcome("TIME_LIMIT", {})}

optimize(bk, t, p, cons, name, interrupted) ==
    LET F    == Feasible(bk, t, p, cons)
        vals == {obj_expr(name, bk, t, p, s) : s \in F}
    IN  IF interrupted
        THEN {Outcome("INTERRUPTED", {s}) : s \in F} \cup {Outcome("INTERRUPTED", {})}
        ELSE IF F = {}
        THEN {Outcome("INFEASIBLE", {})}
        ELSE {Outcome("OPTIMAL", {s}) :
                 s \in {f \in F : obj_expr(name, bk, t, p, f) = MinOf(vals)}}
             \cup {Outcome("TIME_LIMIT", {s}) : s \in F}
             \cup {Outcome("TIME_LIMIT", {})}

TheOne(S) == CHOOSE s \in S : TRUE

(* ---------------------------- exceptions ------------------------------- *)
\* An exception that leaves the function: its type, the entities its
\* message names and the part of the function that raised it.
NoError == [type |-> "none", names |-> {}, at |-> "none"]

Exception(type, names, at) == [type |-> type, names |-> names, at |-> at]

\* Guard A: the instances without any (d, a) in EDA; the loop over EX stops
\* at the first one
no_options(bk, t) == {ex \in EX(t) : ~\E k \in EDA(bk, t) : k[1] = ex}

EXpos(t, ex) ==
    <<CHOOSE i \in DOMAIN t : E(t)[i] = ex[1],
      CHOOSE j \in DOMAIN EXsubset(t, ex[1]) : EXsubset(t, ex[1])[j] = ex>>

LexLeq(p1, p2) == p1[1] < p2[1] \/ (p1[1] = p2[1] /\ p1[2] <= p2[2])

first_no_options(bk, t) ==
    CHOOSE ex \in no_options(bk, t) :
        \A o \in no_options(bk, t) : LexLeq(EXpos(t, ex), EXpos(t, o))

\* Guard B: the keys of LB whose window is inverted; bad_windows[0] is the
\* first in the order in which LB was filled (e, then d, then the set A in
\* the order Python iterates it, then ex)
bad_windows(bk, t) == {k \in EDA(bk, t) : LB(t, k) > UB(t, k)}

Dpos(d) == CHOOSE i \in DOMAIN D : D[i] = d

first_bad_windows(bk, t) ==
    LET pos(k) == <<EXpos(t, k[1])[1], Dpos(k[2])>>
        minED  == {k \in bad_windows(bk, t) :
                      \A o \in bad_windows(bk, t) : LexLeq(pos(k), pos(o))}
    IN  {k \in minED : \A o \in minED : k[3] = o[3] => EXpos(t, k[1])[2] <= EXpos(t, o[1])[2]}

(* ------------------------------ output --------------------------------- *)
NoResult == [kind |-> "none", rows |-> {}]

Raised == [kind |-> "raised", rows |-> {}]

EmptyFrame == [kind |-> "empty", rows |-> {}]

Frame(rows) == [kind |-> "frame", rows |-> rows]

\* f"{hour:02d}:{min:02d}" of a number of minutes
hhmm(minutes) == <<minutes \div 60, minutes % 60>>

\* record that tests the start against the end of the window only
record_upper_only(bk, t, s, k) ==
    LET start == s[k].x
        end   == start + DX(t, k[1])
    IN  [key |-> k,
         Aefing |-> k[1][1],
         Dagur |-> k[2],
         Salur |-> ABREV(k[3]),
         Byrjun |-> hhmm(start),
         Endir |-> hhmm(end),
         ViolatedWindow |-> ~(start <= UB(t, k)),
         Hluti |-> IF bk = "scip" THEN k[3] ELSE None]

\* record that tests the start against the flexed window
record_flexed(bk, t, s, k) ==
    LET start == s[k].x
        end   == start + DX(t, k[1])
    IN  [key |-> k,
         Aefing |-> k[1][1],
         Dagur |-> k[2],
         Salur |-> ABREV(k[3]),
         Byrjun |-> hhmm(start),
         Endir |-> hhmm(end),
         ViolatedWindow |-> ~(LB(t, k) - s[k].dt <= start /\ start <= UB(t, k) + s[k].dt),
         Hluti |-> IF bk = "scip" THEN k[3] ELSE None]

\* One output row per legal triple whose z is set.  key is the identity of
\* the row in the frame (the triple it was read from); Hluti is written by
\* the SCIP variant only.
record(bk, t, s, k) ==
    LET start == s[k].x
        end   == start + DX(t, k[1])
    IN  [key |-> k,
         Aefing |-> k[1][1],
         Dagur |-> k[2],
         Salur |-> ABREV(k[3]),
         Byrjun |-> hhmm(start),
         Endir |-> hhmm(end),
         ViolatedWindow |-> ~(LB(t, k) <= start /\ start <= UB(t, k)),
         Hluti |-> IF bk = "scip" THEN k[3] ELSE None]

records(bk, t, s) ==
    {record(bk, t, s, k) : k \in {j \in EDA(bk, t) : j[2] \in SeqToSet(days) /\ s[j].z = 1}}

(* ------------------------------ actions -------------------------------- *)
Backends == {"gurobi", "scip"}

\* a session before its first script run: the defaults of section 4
AppInit ==
    /\ script = "idle"
    /\ clicked = "none"
    /\ pending = <<>>
    /\ in_flight = {}
    /\ opt_result = None
    /\ opt_thread = None
    /\ clicks = 0

\* the state in which a call on one of the given tables starts
InitWith(tables) ==
    /\ backend \in Backends
    /\ df \in tables
    /\ prev_soln \in {NoPrev} \cup PrevTables(df)
    /\ kill_callback \in BOOLEAN
    /\ kill = FALSE
    /\ pc = "build"
    /\ idx = 0
    /\ model_cons = {}
    /\ hist = <<>>
    /\ sol = {}
    /\ result_df = NoResult
    /\ error = NoError
    /\ frames = frames0
    /\ first_call = {}
    /\ AppInit
    /\ file = {}
    /\ loaded = {}

\* the tables whose sessions all end within the day
Init == InitWith(Tables \ {TableLate})

\* the caller sets the cancellation flag that kill_callback reads
SetKill ==
    /\ pc \in {"build", "loop"}
    /\ ~kill
    /\ kill' = TRUE
    /\ UNCHANGED <<backend, df, prev_soln, kill_callback, pc, idx, model_cons,
                   hist, sol, result_df, error, frames, first_call, app, disk>>

\* data preparation and model construction, up to the phase loop; the
\* Gurobi variant looks up EXsubset[undan_eftir[e1]] while it builds
Build ==
    /\ pc = "build"
    /\ IF /\ backend = "gurobi"
          /\ \E e1 \in DOMAIN undan_eftir(df) : undan_eftir(df)[e1] \notin SeqToSet(E(df))
       THEN /\ pc' = "raised"
            /\ result_df' = Raised
            /\ error' = Exception("KeyError",
                                  {undan_eftir(df)[e1] : e1 \in
                                      {e \in DOMAIN undan_eftir(df) :
                                          undan_eftir(df)[e] \notin SeqToSet(E(df))}},
                                  "build")
            /\ idx' = idx
       ELSE /\ pc' = "loop"
            /\ result_df' = result_df
            /\ error' = error
            /\ idx' = 1
    /\ frames' = clean_and_split(frames)
    /\ UNCHANGED <<backend, df, prev_soln, kill_callback, kill, model_cons, hist, sol,
                   first_call, app, disk>>

PhaseRecord(name, o, best) ==
    [phase |-> name, status |-> o.status, incumbent |-> o.X # {}, best |-> best]

\* one iteration of the phase loop of run_gurobi_optimization.  X keeps the
\* values the extraction reads, those of the last optimize; an earlier
\* incumbent is read through ObjVal only.
GurobiPhase ==
    /\ backend = "gurobi"
    /\ pc = "loop"
    /\ LET order == objective_order(backend, prev_soln)
           name  == order[idx]
           cons  == model_cons \cup phase_constraints(name)
       IN  \E o \in optimize(backend, df, prev_soln, cons, name, kill_callback /\ kill) :
             LET fixing == o.status \in {"OPTIMAL", "TIME_LIMIT"}
                 best   == IF o.X = {} THEN 0
                           ELSE obj_expr(name, backend, df, prev_soln, TheOne(o.X))
             IN  IF fixing /\ o.X = {}
                 THEN /\ pc' = "raised"
                      /\ result_df' = Raised
                      /\ error' = Exception("AttributeError", {}, "ObjVal")
                      /\ model_cons' = cons
                      /\ hist' = Append(hist, PhaseRecord(name, o, best))
                      /\ UNCHANGED <<idx, sol>>
                 ELSE /\ model_cons' = IF fixing THEN cons \cup {Fix(name, best)} ELSE cons
                      /\ hist' = Append(hist, PhaseRecord(name, o, best))
                      /\ sol' = IF idx = Len(order) THEN o.X ELSE {}
                      /\ idx' = idx + 1
                      /\ pc' = IF idx = Len(order) THEN "extract" ELSE "loop"
                      /\ result_df' = result_df
                      /\ error' = error
    /\ UNCHANGED <<backend, df, prev_soln, kill_callback, kill, frames, first_call, app, disk>>

\* the read-out of run_gurobi_optimization: z[...].X fails without a solution
GurobiExtract ==
    /\ backend = "gurobi"
    /\ pc = "extract"
    /\ IF sol = {}
       THEN /\ pc' = "raised"
            /\ result_df' = Raised
            /\ error' = Exception("AttributeError", {}, "extract")
       ELSE /\ pc' = "done"
            /\ result_df' = Frame(records(backend, df, TheOne(sol)))
            /\ error' = error
    /\ UNCHANGED <<backend, df, prev_soln, kill_callback, kill, idx, model_cons, hist, sol,
                   frames, first_call, app, disk>>

\* one iteration of the phase loop of run_scip_optimization: guards A and
\* B, optimize, keep the best solution; kill_callback is not used
ScipPhase ==
    /\ backend = "scip"
    /\ pc = "loop"
    /\ LET order == objective_order(backend, prev_soln)
           name  == order[idx]
           last  == idx = Len(order)
       IN  IF no_options(backend, df) # {}
           THEN /\ pc' = "raised"
                /\ result_df' = Raised
                /\ error' = Exception("RuntimeError", {first_no_options(backend, df)}, "loop")
                /\ UNCHANGED <<idx, model_cons, hist, sol>>
           ELSE IF bad_windows(backend, df) # {}
           THEN /\ pc' = "raised"
                /\ result_df' = Raised
                /\ \E k \in first_bad_windows(backend, df) :
                      error' = Exception("RuntimeError", {k}, "loop")
                /\ UNCHANGED <<idx, model_cons, hist, sol>>
           ELSE \E o \in optimize(backend, df, prev_soln, model_cons, name, FALSE) :
                  LET best == IF o.X = {} THEN 1000
                              ELSE obj_expr(name, backend, df, prev_soln, TheOne(o.X))
                  IN  /\ model_cons' = IF last THEN model_cons
                                       ELSE model_cons \cup {Fix(name, best)}
                      /\ hist' = Append(hist, PhaseRecord(name, o, best))
                      /\ sol' = IF o.X # {} THEN o.X ELSE sol
                      /\ idx' = idx + 1
                      /\ pc' = IF last THEN "extract" ELSE "loop"
                      /\ result_df' = result_df
                      /\ error' = error
    /\ UNCHANGED <<backend, df, prev_soln, kill_callback, kill, frames, first_call, app, disk>>

\* the read-out of run_scip_optimization: an empty frame without a solution
ScipExtract ==
    /\ backend = "scip"
    /\ pc = "extract"
    /\ pc' = "done"
    /\ result_df' = IF sol = {} THEN EmptyFrame
                    ELSE Frame(records(backend, df, TheOne(sol)))
    /\ error' = error
    /\ UNCHANGED <<backend, df, prev_soln, kill_callback, kill, idx, model_cons, hist, sol,
                   frames, first_call, app, disk>>

Next ==
    \/ SetKill
    \/ Build
    \/ GurobiPhase
    \/ GurobiExtract
    \/ ScipPhase
    \/ ScipExtract

Spec == Init /\ [][Next]_vars

(* ------------------ the same table solved a second time ---------------- *)
\* what the caller keeps of a call that has ended: its phases and how it ended
CallRecord == [hist |-> hist, kind |-> result_df.kind]

\* The caller solves the unchanged table again with no previous solution,
\* as a second click on "Besta" does: a new call starts from
\* the state a call starts in.
SolveAgain ==
    /\ pc \in {"done", "raised"}
    /\ prev_soln.is_none
    /\ first_call = {}
    /\ first_call' = {CallRecord}
    /\ kill' = FALSE
    /\ pc' = "build"
    /\ idx' = 0
    /\ model_cons' = {}
    /\ hist' = <<>>
    /\ sol' = {}
    /\ result_df' = NoResult
    /\ error' = NoError
    /\ frames' = frames0
    /\ UNCHANGED <<backend, df, prev_soln, kill_callback, app, disk>>

InitTwice ==
    /\ Init
    /\ df = TableSingle
    /\ prev_soln.is_none

NextTwice ==
    \/ SetKill
    \/ Build
    \/ GurobiPhase
    \/ GurobiExtract
    \/ ScipPhase
    \/ ScipExtract
    \/ SolveAgain

SpecTwice == InitTwice /\ [][NextTwice]_vars

(* ---------------------- sessions that end after 24:00 ------------------ *)
\* one call on a table with or without sessions that end after 24:00
InitLate ==
    /\ InitWith({TableTwoDays, TableLate})
    /\ prev_soln.is_none

SpecLate == InitLate /\ [][Next]_vars

(* --------------------- one session of sports_app.py -------------------- *)
\* Streamlit runs the script of a session from top to bottom once per
\* widget event, one run at a time: an event that arrives during a run
\* waits in pending, and the run in progress is left at its next st.* call
\* or at its end.  script is the position of the run: "idle" (no run),
\* "top" (lines 1-264), "solve" (inside the optimizer call of line 269 or
\* 291), "store" (lines 270-285 or 292-307), "poll" (section 6 onwards).

\* how a button's handler runs the optimizer: a direct call in the script
\* run, which goes on when the call has returned
button_call_thread(b) == [solver |-> b, blocking |-> FALSE]

button_call(b) == [solver |-> b, blocking |-> TRUE]

\* the ordinal of the event the current run serves
run_id == clicks - Len(pending)

\* the user clicks "Besta (Gurobi)" or "Besta (SCIP)", or changes another
\* widget ("none")
Click ==
    /\ clicks < MaxClicks
    /\ \E b \in {"gurobi", "scip", "none"} : pending' = Append(pending, b)
    /\ clicks' = clicks + 1
    /\ UNCHANGED <<script, clicked, in_flight, opt_result, opt_thread, call, disk>>

StartRun ==
    /\ script = "idle"
    /\ pending # <<>>
    /\ script' = "top"
    /\ clicked' = Head(pending)
    /\ pending' = Tail(pending)
    /\ UNCHANGED <<in_flight, opt_result, opt_thread, clicks, call, disk>>

\* a waiting event ends the run in progress at an st.* call
StopRun ==
    /\ script \in {"top", "store", "poll"}
    /\ pending # <<>>
    /\ script' = "idle"
    /\ clicked' = "none"
    /\ UNCHANGED <<pending, in_flight, opt_result, opt_thread, clicks, call, disk>>

\* section 5: the button pressed, if any, runs its optimizer
Buttons ==
    /\ script = "top"
    /\ IF clicked \in {"gurobi", "scip"}
       THEN /\ in_flight' = in_flight \cup {[id |-> run_id, solver |-> button_call(clicked).solver]}
            /\ script' = IF button_call(clicked).blocking THEN "solve" ELSE "poll"
       ELSE /\ in_flight' = in_flight
            /\ script' = "poll"
    /\ UNCHANGED <<clicked, pending, opt_result, opt_thread, clicks, call, disk>>

\* an optimizer call ends, by returning a frame or by raising; the script
\* run that made the call goes on, or ends with the exception
SolveEnds ==
    /\ \E s \in in_flight :
          /\ in_flight' = in_flight \ {s}
          /\ IF script = "solve" /\ s.id = run_id
             THEN \E kind \in {"frame", "raised"} :
                    /\ script' = IF kind = "frame" THEN "store" ELSE "idle"
                    /\ clicked' = IF kind = "frame" THEN clicked ELSE "none"
             ELSE UNCHANGED <<script, clicked>>
    /\ UNCHANGED <<pending, opt_result, opt_thread, clicks, call, disk>>

\* st.session_state["opt_result"] = result_df
Store ==
    /\ script = "store"
    /\ opt_result' = [solver |-> clicked, id |-> run_id]
    /\ script' = "poll"
    /\ UNCHANGED <<clicked, pending, in_flight, opt_thread, clicks, call, disk>>

\* section 6 reads the queue only when opt_thread is set; then the rest of
\* the script draws the page
Poll ==
    /\ script = "poll"
    /\ opt_thread = None
    /\ script' = "idle"
    /\ clicked' = "none"
    /\ UNCHANGED <<pending, in_flight, opt_result, opt_thread, clicks, call, disk>>

InitApp ==
    /\ Init
    /\ backend = "gurobi"
    /\ df = TableSingle
    /\ prev_soln = NoPrev
    /\ kill_callback = FALSE

NextApp ==
    \/ Click
    \/ StartRun
    \/ StopRun
    \/ Buttons
    \/ SolveEnds
    \/ Store
    \/ Poll

SpecApp == InitApp /\ [][NextApp]_vars


(* -------------------------- persisted solutions ------------------------ *)
\* the two modules that define save_solution and load_solution
Modules == {"sports_optimizer", "sports_optimizer_scip"}

\* int(round(total / 5.0) * 5) of a whole number of minutes, written HH:MM;
\* total / 5.0 is never halfway between two integers
round_time_to_nearest_5_minutes(t_str) == hhmm(5 * ((time_to_minutes(t_str) + 2) \div 5))

\* DataFrame.to_dict(orient="records"): one dictionary column -> cell per
\* row; the rows of the frame that is written to the file
to_dict(m, rows) ==
    IF m = "sports_optimizer_scip"
    THEN {[r EXCEPT !.Byrjun = round_time_to_nearest_5_minutes(r.Byrjun),
                    !.Endir = round_time_to_nearest_5_minutes(r.Endir)] : r \in rows}
    ELSE rows

\* json.dump and json.load of a list of dictionaries: every cell is written
\* as a JSON value and read back from it
json_dump(recs) == {[c \in DOMAIN r |-> [json |-> r[c]]] : r \in recs}

json_load(text) == {[c \in DOMAIN r |-> r[c].json] : r \in text}

\* the rows of a table with their positions, as a set of dictionaries
conditions_records(t) == {[pos |-> i, row |-> t[i]] : i \in DOMAIN t}

\* pd.DataFrame(list of dictionaries), the rows in the order of the list
conditions_frame(recs) == [i \in 1..Cardinality(recs) |-> (CHOOSE r \in recs : r.pos = i).row]

save_solution(m, result, edited_df) ==
    [conditions |-> json_dump(conditions_records(edited_df)),
     solution   |-> json_dump(to_dict(m, result.rows))]

load_solution(data) ==
    [result_df     |-> json_load(data.solution),
     conditions_df |-> conditions_frame(json_load(data.conditions))]

\* "Vista lausn": the schedule of the call that has returned is written,
\* with the table it was solved from, to a new file
Save ==
    /\ pc = "done"
    /\ \E m \in Modules : file' = {save_solution(m, result_df, df)}
    /\ UNCHANGED <<loaded, call, app>>

\* "Load Solution": the file is read back
Load ==
    /\ file # {}
    /\ loaded' = {load_solution(TheOne(file))}
    /\ UNCHANGED <<file, call, app>>

InitPersist ==
    /\ Init
    /\ df \in {TableSingle, TableWeekend}
    /\ prev_soln.is_none

NextPersist ==
    \/ SetKill
    \/ Build
    \/ GurobiPhase
    \/ GurobiExtract
    \/ ScipPhase
    \/ ScipExtract
    \/ Save
    \/ Load

SpecPersist == InitPersist /\ [][NextPersist]_vars


(* ------------------------------ properties ----------------------------- *)
Returned == result_df.kind = "frame"

RowStart(r) == time_to_minutes(r.Byrjun)

RowEnd(r) == time_to_minutes(r.Endir)

Disjoint(r1, r2) == RowEnd(r1) <= RowStart(r2) \/ RowEnd(r2) <= RowStart(r1)

\* C1 -- No-overlap: in a returned schedule two rows of different session
\* instances placed on the same day in the same area have disjoint
\* [start, end) intervals.
NoOverlap ==
    Returned =>
        \A r1, r2 \in result_df.rows :
            (/\ r1.key[1] # r2.key[1]
             /\ r1.key[2] = r2.key[2]
             /\ r1.key[3] = r2.key[3]) => Disjoint(r1, r2)

NoOverlapWitness ==
    /\ Returned
    /\ \E r1, r2 \in result_df.rows :
          /\ r1.key[1] # r2.key[1]
          /\ r1.key[2] = r2.key[2]
          /\ r1.key[3] = r2.key[3]
          /\ RowEnd(r1) <= RowStart(r2)

\* C2 -- Exclusivity respected: in a returned schedule a row placed in an
\* area a1 that is a key of ekki_deila_svaedi and a row of another instance
\* placed the same day in an area listed under a1 have disjoint intervals.
ExclusivityRespected ==
    Returned =>
        \A r1, r2 \in result_df.rows :
            (/\ r1.key[1] # r2.key[1]
             /\ r1.key[2] = r2.key[2]
             /\ r1.key[3] \in DOMAIN ekki_deila_svaedi
             /\ r2.key[3] \in ekki_deila_svaedi[r1.key[3]]) => Disjoint(r1, r2)

ExclusivityWitness ==
    /\ Returned
    /\ \E r1, r2 \in result_df.rows :
          /\ r1.key[1] # r2.key[1]
          /\ r1.key[2] = r2.key[2]
          /\ r1.key[3] = "A-sal"
          /\ r2.key[3] = "2/3 A-sal"
          /\ Disjoint(r1, r2)

\* C3 -- Exactly-once: in a returned schedule every session instance of the
\* input has exactly one output row.
ExactlyOnceInOutput ==
    Returned =>
        \A ex \in EX(df) : Cardinality({r \in result_df.rows : r.key[1] = ex}) = 1

ExactlyOnceWitness ==
    /\ Returned
    /\ Cardinality(EX(df)) >= 2
    /\ \A ex \in EX(df) : \E r \in result_df.rows : r.key[1] = ex

\* C4 -- Daily uniqueness: in a returned schedule no activity has two of
\* its session instances placed on the same day.
DailyUniqueness ==
    Returned =>
        \A r1, r2 \in result_df.rows :
            (r1.key # r2.key /\ r1.Aefing = r2.Aefing) => r1.Dagur # r2.Dagur

DailyUniquenessWitness ==
    /\ Returned
    /\ \E r1, r2 \in result_df.rows :
          r1.key[1] # r2.key[1] /\ r1.Aefing = r2.Aefing /\ r1.Dagur # r2.Dagur

\* C5 -- Window containment or flagged: every output row has its start
\* inside the declared window LB..UB of its (instance, day, area) or has
\* ViolatedWindow set.
WindowOrFlagged ==
    Returned =>
        \A r \in result_df.rows :
            \/ LB(df, r.key) <= RowStart(r) /\ RowStart(r) <= UB(df, r.key)
            \/ r.ViolatedWindow

WindowOrFlaggedWitness ==
    /\ Returned
    /\ \E r \in result_df.rows :
          /\ RowStart(r) < LB(df, r.key)
          /\ r.ViolatedWindow
          /\ sol # {} /\ TheOne(sol)[r.key].dt > 0


\* the session instances whose prior placement was user-modified and not
\* window-violating
UserModified(ex) ==
    \E i \in DOMAIN prev_soln.rows :
        /\ prev_soln.rows[i].Aefing = ex[1]
        /\ prev_soln.rows[i].Modified
        /\ ~prev_soln.rows[i].ViolatedWindow

\* C6 -- Lock respected: after a solve with a previous solution, a session
\* instance whose prior placement was user-modified and not
\* window-violating has, at the (day, area) where the returned schedule
\* places it, flex-used indicator 0 and flex amount 0, whichever day that is.
LockRespected ==
    (Returned /\ backend = "gurobi" /\ ~prev_soln.is_none) =>
        \A r \in result_df.rows :
            UserModified(r.key[1]) =>
                TheOne(sol)[r.key].zt = 0 /\ TheOne(sol)[r.key].dt = 0

\* C7 -- Modified row reproduced: a previous-solution row X with modified
\* set and violated not set, whose activity is still in the input, comes
\* back in the re-solve as a row with X's day, X's area and X's start.
ModifiedRowReproduced ==
    (Returned /\ backend = "gurobi" /\ ~prev_soln.is_none) =>
        \A i \in DOMAIN prev_soln.rows :
            LET X == prev_soln.rows[i]
            IN  (X.Modified /\ ~X.ViolatedWindow /\ X.Aefing \in SeqToSet(E(df))) =>
                    \E r \in result_df.rows :
                        /\ r.Aefing = X.Aefing
                        /\ r.Dagur = X.Dagur
                        /\ r.Salur = X.Salur
                        /\ r.Byrjun = X.Byrjun

\* C8 -- Lexicographic fixing: every phase that ended with an incumbent and
\* is followed by another phase has its constraint
\* objective <= best value + 1e-6 in the model from the end of that phase
\* on, and the schedule finally returned meets it.
LexicographicFixing ==
    \A i \in DOMAIN hist :
        (hist[i].incumbent /\ i < Len(objective_order(backend, prev_soln))) =>
            /\ Fix(hist[i].phase, hist[i].best) \in model_cons
            /\ Returned =>
                  1000000 * obj_expr(hist[i].phase, backend, df, prev_soln, TheOne(sol))
                      <= 1000000 * hist[i].best + 1

\* C9 -- Declared conflicts: for every activity A and every activity B in
\* A's conflict list, no row of A overlaps in time a row of B of the same
\* day in a returned schedule, whatever the areas.
DeclaredConflicts ==
    (Returned /\ backend = "gurobi") =>
        \A i \in DOMAIN df : \A j \in DOMAIN df[i].Arekstur :
            \A r1, r2 \in result_df.rows :
                (/\ r1.Aefing = df[i].Aefing
                 /\ r2.Aefing = df[i].Arekstur[j]
                 /\ r1.Dagur = r2.Dagur) => Disjoint(r1, r2)

\* C10 -- Precedence: for every activity A whose 'fyrir/undan' reference is
\* B, on every day on which a returned schedule places both, A's row ends
\* no later than B's row starts.
PrecedenceRespected ==
    (Returned /\ backend = "gurobi") =>
        \A i \in DOMAIN df :
            df[i].fyrir # None =>
                \A r1, r2 \in result_df.rows :
                    (/\ r1.Aefing = df[i].Aefing
                     /\ r2.Aefing = df[i].fyrir
                     /\ r1.Dagur = r2.Dagur) => RowEnd(r1) <= RowStart(r2)

WeekdayWeekendSplit ==
    /\ pc # "build" =>
          /\ \A e \in SeqToSet(E(df)) :
                /\ Cardinality({ex \in EX(df) : ex[1] = e /\ ex[2] = "-"})
                       = Len(RowOf(df, e).Lengd)
                /\ Cardinality({ex \in EX(df) : ex[1] = e /\ ex[2] = "*"})
                       = Len(RowOf(df, e).LengdHelgar)
          /\ \A k \in EDA(backend, df) :
                /\ k[1][2] = "-" => k[2] \notin Dw
                /\ k[1][2] = "*" => k[2] \in Dw
    /\ Returned =>
          \A r \in result_df.rows :
              /\ r.key[1][2] = "-" => r.Dagur \notin Dw
              /\ r.key[1][2] = "*" => r.Dagur \in Dw

\* the (day, area) combinations of the input table that are legal for an
\* instance: the area is listed, the day is in the area's day list if one
\* is written, the activity has a window on the day, and the day is of the
\* instance's class
LegalCombinations(ex) ==
    {c \in SeqToSet(D) \X {sp.area : sp \in RowOf(df, ex[1]).Salur} :
        /\ c[1] \in DOMAIN RowOf(df, ex[1]).win
        /\ \E sp \in RowOf(df, ex[1]).Salur :
              sp.area = c[2] /\ (sp.days = NoDays \/ c[1] \in sp.days)
        /\ ex[2] = "*" <=> c[1] \in Dw}

\* C13 -- Unschedulable-instance error: when some session instance has no
\* legal (day, area) combination, the solve gets no further than data
\* preparation: no model is built, no phase is solved, no schedule is
\* returned, and the error it ends with names such an instance.
UnschedulableInstanceError ==
    (\E ex \in EX(df) : LegalCombinations(ex) = {}) =>
        /\ hist = <<>>
        /\ result_df.kind \in {"none", "raised"}
        /\ pc \in {"build", "raised"}
        /\ pc = "raised" =>
              /\ error.at = "build"
              /\ \E ex \in EX(df) : LegalCombinations(ex) = {} /\ ex \in error.names

\* C14 -- Window-inversion error: when some legal triple has LB > UB, no
\* phase is ever solved and no schedule is returned (so the instance is not
\* placed with flex), and the error the solve ends with names such a triple.
WindowInversionError ==
    (\E k \in EDA(backend, df) : LB(df, k) > UB(df, k)) =>
        /\ hist = <<>>
        /\ result_df.kind \in {"none", "raised"}
        /\ pc \in {"build", "loop", "raised"}
        /\ pc = "raised" =>
              \E k \in EDA(backend, df) : LB(df, k) > UB(df, k) /\ k \in error.names

\* C15 -- Phase without incumbent is a soft failure: once some phase of a
\* model that has feasible points has ended without an incumbent, the
\* solve never raises; if another phase
\* follows, a ceiling on that phase's objective is in the model and every
\* point that satisfies the hard constraints meets it; and the solve
\* reaches its read-out only with every phase solved.
PhaseWithoutIncumbentSoft ==
    \A i \in DOMAIN hist :
        (~hist[i].incumbent /\ BuiltModel[backend][df] # {}) =>
            /\ pc # "raised"
            /\ i < Len(objective_order(backend, prev_soln)) =>
                  \E c \in model_cons :
                      /\ c.name = hist[i].phase
                      /\ \A s \in BuiltModel[backend][df] :
                            holds(c, backend, df, prev_soln, s)
            /\ pc \in {"extract", "done"} =>
                  Len(hist) = Len(objective_order(backend, prev_soln))

\* C16 -- Cooperative cancellation: a phase whose search was terminated by
\* the cancellation flag is the last phase of the solve, and the solve
\* does not end by raising.
CooperativeCancellation ==
    \A i \in DOMAIN hist :
        hist[i].status = "INTERRUPTED" => (i = Len(hist) /\ pc # "raised")

\* C17 -- Inputs are never mutated: no step of a solve changes the activity
\* table or the previous-solution table the caller passed, in rows, cell
\* values or column types, whether the solve ends by returning or raising.
InputsNeverMutated ==
    [][/\ df' = df
       /\ prev_soln' = prev_soln
       /\ frames'.caller_df = "as_passed"
       /\ frames'.caller_prev = "as_passed"]_vars

InputsNeverMutatedWitness ==
    /\ pc \in {"done", "raised"}
    /\ frames.local_df = "split"
    /\ ~prev_soln.is_none

\* the input of the single-activity scenario: one activity with one
\* weekday session, group multiplier 1, one area without a day list and one
\* weekday window [L, U], L <= U
SingleActivity ==
    /\ Len(df) = 1
    /\ df[1].Aefing \notin StarNames
    /\ Len(df[1].Lengd) = 1 /\ Len(df[1].LengdHelgar) = 0 /\ df[1].Aefingarhopar = 1
    /\ Cardinality(df[1].Salur) = 1 /\ \A sp \in df[1].Salur : sp.days = NoDays
    /\ Cardinality(DOMAIN df[1].win) = 1
    /\ \A d \in DOMAIN df[1].win :
          /\ d \notin Dw
          /\ class_schedule(df, df[1].Aefing)[d][1] <= class_schedule(df, df[1].Aefing)[d][2]

BothReturned ==
    /\ first_call # {}
    /\ TheOne(first_call).kind = "frame"
    /\ Returned
    /\ \A i \in DOMAIN hist : hist[i].status # "INTERRUPTED"
    /\ \A i \in DOMAIN TheOne(first_call).hist :
          TheOne(first_call).hist[i].status # "INTERRUPTED"

SamePhases(h1, h2) ==
    /\ Len(h1) = Len(h2)
    /\ \A i \in DOMAIN h1 : h1[i].phase = h2[i].phase

SingleSolveInFlight == Cardinality(in_flight) <= 1

SingleSolveInFlightWitness ==
    /\ Cardinality(in_flight) = 1
    /\ script = "solve"
    /\ pending # <<>>
    /\ Head(pending) \in {"gurobi", "scip"}

\* C21 -- Persisted solution round trip: what load_solution reads from a
\* file written by save_solution is, row for row and cell for cell, the
\* schedule and the conditions table that were saved, start and end times
\* included.
PersistedRoundTrip ==
    (file # {} /\ loaded = {load_solution(TheOne(file))}) =>
        /\ TheOne(loaded).result_df = result_df.rows
        /\ TheOne(loaded).conditions_df = df

\* C22 -- Phase order: the phases solved are stay-close then timeflex when
\* a previous solution is supplied, and before/after compliance, timeflex,
\* default tie-break when none is; each is solved once, in this order, and
\* the read-out follows the last of them.
PhaseOrder ==
    LET order == IF prev_soln.is_none THEN <<"before_after", "timeflex", "default">>
                 ELSE <<"stayclose", "timeflex">>
    IN  /\ Len(hist) <= Len(order)
        /\ \A i \in DOMAIN hist : hist[i].phase = order[i]
        /\ pc \in {"extract", "done"} => Len(hist) = Len(order)

\* C23 -- Violated rows do not anchor the solve: once the previous solution
\* has been read, prev_assignment, mod_penalty and the locked set
\* (modifiedEDA) are what they would be with any one row whose
\* ViolatedWindow flag is set left out, also when that row is flagged
\* Modified.
ViolatedRowsDoNotAnchor ==
    (pc # "build" /\ ~prev_soln.is_none) =>
        \A i \in DOMAIN prev_soln.rows :
            prev_soln.rows[i].ViolatedWindow =>
                LET rows    == prev_soln.rows
                    without == Prev(SubSeq(rows, 1, i - 1) \o SubSeq(rows, i + 1, Len(rows)))
                IN  /\ prev_assignment(backend, df, prev_soln)
                           = prev_assignment(backend, df, without)
                    /\ mod_penalty(backend, df, prev_soln) = mod_penalty(backend, df, without)
                    /\ modifiedEDA(df, prev_soln) = modifiedEDA(df, without)

ViolatedRowsDoNotAnchorWitness ==
    /\ pc # "build"
    /\ ~prev_soln.is_none
    /\ \E i, j \in DOMAIN prev_soln.rows :
          /\ prev_soln.rows[i].ViolatedWindow /\ prev_soln.rows[i].Modified
          /\ ~prev_soln.rows[j].ViolatedWindow
          /\ j < i
          /\ prev_soln.rows[i].Aefing = prev_soln.rows[j].Aefing
          /\ prev_soln.rows[i].Dagur = prev_soln.rows[j].Dagur
          /\ prev_soln.rows[i].Byrjun # prev_soln.rows[j].Byrjun
    /\ DOMAIN prev_assignment(backend, df, prev_soln) # {}

\* C24 -- Warm-start recording: once the previous solution has been read,
\* every row of it that is not flagged violated has, for every instance of
\* its activity, its start in minutes recorded as the prior start for its
\* day, with weight 100 when the row is user-modified and 1 when it is not,
\* and the locked set holds the instances of the user-modified rows only.
WarmStartRecording ==
    (pc # "build" /\ ~prev_soln.is_none) =>
        /\ \A i \in DOMAIN prev_soln.rows :
              LET r == prev_soln.rows[i]
              IN  ~r.ViolatedWindow =>
                    \A key \in row_keys(df, r) :
                        /\ key \in DOMAIN prev_assignment(backend, df, prev_soln)
                        /\ prev_assignment(backend, df, prev_soln)[key]
                               = time_to_minutes(r.Byrjun)
                        /\ mod_penalty(backend, df, prev_soln)[key]
                               = IF r.Modified THEN 100 ELSE 1
        /\ modifiedEDA(df, prev_soln)
               = UNION {row_keys(df, prev_soln.rows[i]) :
                           i \in {j \in DOMAIN prev_soln.rows :
                                     /\ prev_soln.rows[j].Modified
                                     /\ ~prev_soln.rows[j].ViolatedWindow}}

\* C25 -- Consecutive-day tracking: in every solution of the Gurobi model,
\* for every activity and each of the seven pairs of adjacent days, the
\* tracker q of the pair is at least 1 when the activity has instances
\* placed on both days of the pair, whatever the classes of the two days
\* and the areas of the two placements.
ConsecutiveDayTracking ==
    (backend = "gurobi" /\ sol # {}) =>
        \A e \in SeqToSet(E(df)) : \A i \in 1..7 :
            (\E k1, k2 \in EDA(backend, df) :
                /\ k1[1][1] = e /\ k1[2] = D[i] /\ TheOne(sol)[k1].z = 1
                /\ k2[1][1] = e /\ k2[2] = D[(i % 7) + 1] /\ TheOne(sol)[k2].z = 1)
            => q(backend, df, TheOne(sol), e, i) >= 1

\* C26 -- Exclusivity is only as declared: once the model is built it
\* accepts every point in which the placements that are in conflict, in the
\* same area or in two areas of which one is listed under the other in
\* ekki_deila_svaedi are apart in time; placements of the same day in two
\* areas neither of which is listed under the other may overlap.
ExclusivityOnlyDeclared ==
    pc # "build" => accepts_declared[backend][df]

ExclusivityOnlyDeclaredWitness ==
    /\ Returned
    /\ \E r1, r2 \in result_df.rows :
          /\ r1.key[1] # r2.key[1]
          /\ r1.Dagur = r2.Dagur
          /\ r1.key[3] = "2/3 A-sal"
          /\ r2.key[3] = "1/3 A-sal-3"
          /\ ~declared(r1.key[3], r2.key[3])
          /\ ~Disjoint(r1, r2)

\* C27 -- Inactive start is zero: in every solution of the model the start
\* variable of a legal triple whose activation indicator is 0 is 0, so the
\* sum of an instance's start variables over the areas of a day is the
\* start of its placement on that day, or 0 when it has none.
InactiveStartZero ==
    sol # {} =>
        /\ \A k \in EDA(backend, df) : TheOne(sol)[k].z = 0 => TheOne(sol)[k].x = 0
        /\ \A ex \in EX(df) : \A d \in SeqToSet(D) :
              LET K  == {k \in EDA(backend, df) : k[1] = ex /\ k[2] = d}
                  Kz == {k \in K : TheOne(sol)[k].z = 1}
              IN  Sx(TheOne(sol), K) = Sx(TheOne(sol), Kz)

\* C28 -- Shared ordering boolean does not over-constrain: the model with
\* one ordering boolean per instance pair has the same points (activations
\* and starts) as the model with one ordering boolean per instance pair and
\* day, also for two instances that are placed on different days.
SharedOrderingBoolean ==
    pc # "build" => same_schedules[backend][df]

\* C28 -- Shared ordering boolean, amended: for a table whose sessions all
\* end by 24:00 wherever their windows let them start, the model with one
\* ordering boolean per instance pair has the same schedules as the model
\* with one ordering boolean per instance pair and day.
SharedOrderingWithinDay ==
    (pc # "build" /\ within_day(backend, df)) => same_schedules[backend][df]

SharedOrderingBooleanWitness ==
    /\ Returned
    /\ within_day(backend, df)
    /\ \E r1, r2 \in result_df.rows :
          /\ r1.key[1] # r2.key[1]
          /\ r1.Dagur # r2.Dagur
          /\ <<r1.key[1], r2.Dagur, r2.key[3]>> \in EDA(backend, df)
          /\ <<r2.key[1], r1.Dagur, r1.key[3]>> \in EDA(backend, df)
          /\ sol \subseteq PerDayModel[backend][df]

\* C29 -- Flex only moves a start earlier: in a returned schedule every row
\* starts no later than the upper bound of its (instance, day, area); a row
\* has ViolatedWindow only when it starts below the lower bound, and then the
\* flex amount of its placement is at least lower bound minus start and its
\* flex-used indicator is 1.
FlexOnlyEarlier ==
    Returned =>
        \A r \in result_df.rows :
            /\ RowStart(r) <= UB(df, r.key)
            /\ r.ViolatedWindow =>
                  /\ RowStart(r) < LB(df, r.key)
                  /\ \A s \in sol : /\ s[r.key].dt >= LB(df, r.key) - RowStart(r)
                                     /\ s[r.key].zt = 1

FlexOnlyEarlierWitness ==
    /\ Returned
    /\ sol # {}
    /\ \E r \in result_df.rows :
          /\ r.ViolatedWindow
          /\ TheOne(sol)[r.key].zt = 1
          /\ TheOne(sol)[r.key].dt = LB(df, r.key) - RowStart(r)
          /\ RowStart(r) <= UB(df, r.key)

\* C30 -- Legal set is complete: once the data are prepared, every (instance,
\* day, area) such that the activity lists the area, the day is allowed for
\* that area in the activity's row (or no day list is written), the activity
\* has a window for the day and the day's class matches the instance, is in
\* EDA, with the activity's window for that day as its bounds.
LegalSetComplete ==
    pc # "build" =>
        \A ex \in EX(df) : \A c \in LegalCombinations(ex) :
            LET k == <<ex, c[1], c[2]>>
            IN  /\ k \in EDA(backend, df)
                /\ <<LB(df, k), UB(df, k)>> = class_schedule(df, ex[1])[c[1]]

====
